---- MODULE Spec2Model ----
(***************************************************************************)
(* State-machine model of the LinkedIn post workflow: the LangGraph graph  *)
(* of src/src/main.py over the pydantic State of src/src/state.py, with    *)
(* the six node functions of src/src/nodes.py.                             *)
(*                                                                         *)
(* Strings that the code converts (titles, bodies, operator lines) are      *)
(* sequences of one-character strings; a feed body is a sequence of tokens, *)
(* each a markup tag, a URL or one character.  Strings the code only copies *)
(* (drafts, messages) are TLA+ strings.  Python None is the string "None"   *)
(* for an optional string and the empty sequence for an optional object.    *)
(***************************************************************************)
EXTENDS Integers, Sequences, FiniteSets, TLC

VARIABLES
    state,      \* the graph's State channels (declared fields only)
    pc,         \* the node about to run, or END / done / failed / crashed
    at,         \* position inside a blocking node: "entry" or "prompt"
    exc,        \* the uncaught exception that ended the run, "none" otherwise
    file,       \* content of linkedin_post.txt
    file0,      \* content of linkedin_post.txt when the run started
    feed,       \* what feedparser.parse yields in this run
    trace,      \* the nodes executed so far, in order
    llm_log,    \* the language-model requests made so far, with their outcome
    decision,   \* the operator's last choice at the review gate
    lines,      \* number of operator lines read so far
    llm_ready   \* what the language model had in store for the last pass
                \* of a node that calls it ("ok", "raises", ...)

vars == <<state, pc, at, exc, file, file0, feed, trace, llm_log, decision, lines, llm_ready>>

(***************************************************************************)
(* Bounds of the model.                                                    *)
(***************************************************************************)
MaxSegs == 2        \* segments concatenated into one feed body
MaxPieces == 2      \* comma-separated pieces in a ranking response
MaxLines == 3       \* operator lines read in one run
MaxPasses == 3      \* node executions recorded in one run after the entry node
MaxArticles == 2    \* article records handed to the deduplicator

None == "None"

(***************************************************************************)
(* Text helpers: str.lower, str.strip, slicing.                             *)
(***************************************************************************)
Min(a, b) == IF a < b THEN a ELSE b

LowerChar(c) ==
    CASE c = "A" -> "a"
      [] c = "B" -> "b"
      [] OTHER -> c

Lower(s) == [i \in 1..Len(s) |-> LowerChar(s[i])]

IsSpace(c) == c = " "

RECURSIVE LStrip(_)
LStrip(s) ==
    IF s = <<>> THEN <<>>
    ELSE IF IsSpace(Head(s)) THEN LStrip(Tail(s)) ELSE s

RECURSIVE RStrip(_)
RStrip(s) ==
    IF s = <<>> THEN <<>>
    ELSE IF IsSpace(s[Len(s)]) THEN RStrip(SubSeq(s, 1, Len(s) - 1)) ELSE s

Strip(s) == RStrip(LStrip(s))

Prefix(s, n) == SubSeq(s, 1, Min(n, Len(s)))

(***************************************************************************)
(* NewsArticle and State (state.py).                                        *)
(***************************************************************************)
NewsArticle(t, c, u) == [title |-> t, content |-> c, type |-> "general", url |-> u]

START == "__start__"

StateDefaults ==
    [search_results |-> <<>>,
     news_articles |-> <<>>,
     linkedin_article |-> <<>>,
     linkedin_post |-> None,
     current_node |-> START,
     error |-> None]

\* pydantic: reading an attribute that is not a declared field raises
\* AttributeError; assigning one raises ValueError.
HasField(st, name) == name \in DOMAIN st

\* Python truthiness of an optional string
Truthy(s) == s # None /\ s # ""

(***************************************************************************)
(* Feed Extractor: fetch_ai_news_rss_node.                                  *)
(***************************************************************************)
H3Open == "<h3>"
H3Close == "</h3>"
Hr == "<hr />"
UrlTok == "http://u"

Tags == {H3Open, H3Close, Hr}

\* least index >= from holding tok, 0 if none
RECURSIVE IndexFrom(_, _, _)
IndexFrom(body, tok, from) ==
    IF from > Len(body) THEN 0
    ELSE IF body[from] = tok THEN from
    ELSE IndexFrom(body, tok, from + 1)

\* re.findall(r"(?s)<h3.*?>(?P<headline>.*?)</h3>(.*?)<hr />", body): leftmost
\* non-overlapping matches, every group lazy
RECURSIVE FindHeadlines(_, _)
FindHeadlines(body, from) ==
    LET i == IndexFrom(body, H3Open, from)
        j == IF i = 0 THEN 0 ELSE IndexFrom(body, H3Close, i + 1)
        k == IF j = 0 THEN 0 ELSE IndexFrom(body, Hr, j + 1)
    IN  IF k = 0 THEN <<>>
        ELSE <<[headline |-> SubSeq(body, i + 1, j - 1),
                content |-> SubSeq(body, j + 1, k - 1)]>>
             \o FindHeadlines(body, k + 1)

\* re.sub(r"<[^>]+>", "", s)
IsTag(tok) == tok \in Tags
NotTag(tok) == ~IsTag(tok)
StripTags(s) == SelectSeq(s, NotTag)

\* re.findall(r'https?://\S+', content)
IsUrl(tok) == tok = UrlTok
FindLinks(s) == SelectSeq(s, IsUrl)

ExtractArticle(m) ==
    LET links == FindLinks(m.content)
    IN  NewsArticle(Strip(StripTags(m.headline)),
                    Strip(StripTags(m.content)),
                    IF links # <<>> THEN links[1] ELSE "")

ExtractArticles(body) ==
    LET hs == FindHeadlines(body, 1)
    IN  [n \in 1..Len(hs) |-> ExtractArticle(hs[n])]

\* an extractor that treats a body without articles as a failure
fetch_fails_without_articles(st, fd) ==
    IF fd.kind = "raises" THEN
        [state |-> [StateDefaults EXCEPT !.error = fd.msg], exc |-> "none"]
    ELSE IF fd.entries = <<>> \/ ExtractArticles(fd.entries[1]) = <<>> THEN
        [state |-> [StateDefaults EXCEPT !.error = "No entries found in the RSS feed."],
         exc |-> "none"]
    ELSE
        [state |-> [StateDefaults EXCEPT !.news_articles = ExtractArticles(fd.entries[1])],
         exc |-> "none"]

\* the node returns a fresh State(...): every field it does not pass is the default
fetch_ai_news_rss_node(st, fd) ==
    IF fd.kind = "raises" THEN
        [state |-> [StateDefaults EXCEPT !.error = fd.msg], exc |-> "none"]
    ELSE IF fd.entries = <<>> THEN
        [state |-> [StateDefaults EXCEPT !.error = "No entries found in the RSS feed."],
         exc |-> "none"]
    ELSE
        [state |-> [StateDefaults EXCEPT !.news_articles = ExtractArticles(fd.entries[1])],
         exc |-> "none"]

(***************************************************************************)
(* Deduplicator and Relevance Ranker: choose_relevant_article_node.         *)
(***************************************************************************)
ContentPrefixLen == 200
TopK == 5

\* the body key without the [:200] slice
norm_content_whole_body(article) == Strip(Lower(article.content))

norm_title(article) == Strip(Lower(article.title))
norm_content(article) == Strip(Lower(Prefix(article.content, ContentPrefixLen)))

\* the loop comparing titles only
RECURSIVE UniqueByTitleFrom(_, _, _, _)
UniqueByTitleFrom(articles, n, seen_titles, seen_contents) ==
    IF n > Len(articles) THEN <<>>
    ELSE LET a == articles[n]
         IN  IF norm_title(a) \notin seen_titles
             THEN <<a>> \o UniqueByTitleFrom(articles, n + 1,
                                             seen_titles \cup {norm_title(a)},
                                             seen_contents)
             ELSE UniqueByTitleFrom(articles, n + 1, seen_titles, seen_contents)

\* the loop of lines 108-116, from article n on, with the sets seen so far
RECURSIVE UniqueFrom(_, _, _, _)
UniqueFrom(articles, n, seen_titles, seen_contents) ==
    IF n > Len(articles) THEN <<>>
    ELSE LET a == articles[n]
         IN  IF norm_title(a) \notin seen_titles /\ norm_content(a) \notin seen_contents
             THEN <<a>> \o UniqueFrom(articles, n + 1,
                                      seen_titles \cup {norm_title(a)},
                                      seen_contents \cup {norm_content(a)})
             ELSE UniqueFrom(articles, n + 1, seen_titles, seen_contents)

unique_articles(articles) == UniqueFrom(articles, 1, {}, {})

\* str.split(","): the pieces between commas, at least one
RECURSIVE Split(_, _)
Split(s, cur) ==
    IF s = <<>> THEN <<cur>>
    ELSE IF Head(s) = "," THEN <<cur>> \o Split(Tail(s), <<>>)
    ELSE Split(Tail(s), Append(cur, Head(s)))

Digits == {"0", "1", "2", "3", "4", "5", "6", "7", "8", "9"}

DigitValue(c) ==
    CASE c = "0" -> 0 [] c = "1" -> 1 [] c = "2" -> 2 [] c = "3" -> 3 [] c = "4" -> 4
      [] c = "5" -> 5 [] c = "6" -> 6 [] c = "7" -> 7 [] c = "8" -> 8 [] c = "9" -> 9

AllDigits(s) == s # <<>> /\ \A i \in 1..Len(s) : s[i] \in Digits

RECURSIVE DigitsValue(_)
DigitsValue(s) ==
    IF s = <<>> THEN 0 ELSE 10 * DigitsValue(SubSeq(s, 1, Len(s) - 1)) + DigitValue(s[Len(s)])

\* int(text.strip()): optional sign, then digits; anything else raises ValueError
IsIntText(text) ==
    LET t == Strip(text)
    IN  IF t # <<>> /\ Head(t) \in {"-", "+"} THEN AllDigits(Tail(t)) ELSE AllDigits(t)

IntOf(text) ==
    LET t == Strip(text)
    IN  IF Head(t) = "-" THEN 0 - DigitsValue(Tail(t))
        ELSE IF Head(t) = "+" THEN DigitsValue(Tail(t))
        ELSE DigitsValue(t)

\* [idx for idx in selected_indices if 0 <= idx < count][:5]
RECURSIVE InRange(_, _)
InRange(indices, count) ==
    IF indices = <<>> THEN <<>>
    ELSE IF 0 <= Head(indices) /\ Head(indices) < count
         THEN <<Head(indices)>> \o InRange(Tail(indices), count)
         ELSE InRange(Tail(indices), count)

valid_indices(indices, count) == Prefix(InRange(indices, count), TopK)

LogEntry(node, articles, article, post, feedback, outcome) ==
    [node |-> node, articles |-> articles, article |-> article, post |-> post,
     feedback |-> feedback, outcome |-> outcome]

ParseErrorMsg == "Error in 'choose_relevant_article': Could not parse LLM response as integers."
UnexpectedErrorMsg == "Unexpected error in 'choose_relevant_article'"

\* a ranker that invokes the model before it looks at the article list
choose_invokes_before_checks(st, llm) ==
    LET s1 == [st EXCEPT !.current_node = "choose_relevant_article"]
        unique == unique_articles(st.news_articles)
        call == <<LogEntry("choose_relevant_article", unique, <<>>, None, <<>>, llm.kind)>>
        pieces == Split(llm.content, <<>>)
        selected_indices == [n \in 1..Len(pieces) |-> IntOf(pieces[n])]
        valid == valid_indices(selected_indices, Len(unique))
    IN  IF llm.kind = "raises" THEN
            [state |-> [s1 EXCEPT !.error = UnexpectedErrorMsg], exc |-> "none", calls |-> call]
        ELSE IF llm.kind = "raises_value_error" THEN
            [state |-> st, exc |-> "UnboundLocalError", calls |-> call]
        ELSE IF st.news_articles = <<>> THEN
            [state |-> [s1 EXCEPT !.error = "No articles available to choose from"],
             exc |-> "none", calls |-> call]
        ELSE IF \E n \in 1..Len(pieces) : ~IsIntText(pieces[n]) THEN
            [state |-> [s1 EXCEPT !.error = ParseErrorMsg], exc |-> "none", calls |-> call]
        ELSE IF valid = <<>> THEN
            [state |-> [s1 EXCEPT !.error = "No valid article indices were selected"],
             exc |-> "none", calls |-> call]
        ELSE
            [state |-> [s1 EXCEPT !.error = ParseErrorMsg], exc |-> "none", calls |-> call]

\* llm: what base_llm.invoke does in this call
choose_relevant_article_node(st, llm) ==
    LET s1 == [st EXCEPT !.current_node = "choose_relevant_article"]
        unique == unique_articles(st.news_articles)
        call == <<LogEntry("choose_relevant_article", unique, <<>>, None, <<>>, llm.kind)>>
        pieces == Split(llm.content, <<>>)
        selected_indices == [n \in 1..Len(pieces) |-> IntOf(pieces[n])]
        valid == valid_indices(selected_indices, Len(unique))
    IN  IF st.news_articles = <<>> THEN
            [state |-> [s1 EXCEPT !.error = "No articles available to choose from"],
             exc |-> "none", calls |-> <<>>]
        ELSE IF unique = <<>> THEN
            [state |-> [s1 EXCEPT !.error = "No unique articles available to choose from"],
             exc |-> "none", calls |-> <<>>]
        ELSE IF llm.kind = "raises" THEN
            [state |-> [s1 EXCEPT !.error = UnexpectedErrorMsg], exc |-> "none", calls |-> call]
        ELSE IF llm.kind = "raises_value_error" THEN
            \* the ValueError handler reads msg.content, and msg was never bound
            [state |-> st, exc |-> "UnboundLocalError", calls |-> call]
        ELSE IF \E n \in 1..Len(pieces) : ~IsIntText(pieces[n]) THEN
            [state |-> [s1 EXCEPT !.error = ParseErrorMsg], exc |-> "none", calls |-> call]
        ELSE IF valid = <<>> THEN
            [state |-> [s1 EXCEPT !.error = "No valid article indices were selected"],
             exc |-> "none", calls |-> call]
        ELSE IF HasField(s1, "selected_articles") THEN
            [state |-> [s1 EXCEPT !.selected_articles =
                                      [n \in 1..Len(valid) |-> unique[valid[n] + 1]]],
             exc |-> "none", calls |-> call]
        ELSE
            \* the assignment raises ValueError, which the handler of line 157 catches
            [state |-> [s1 EXCEPT !.error = ParseErrorMsg], exc |-> "none", calls |-> call]

(***************************************************************************)
(* Human Selector: select_article_node.  One operator line per evaluation;  *)
(* done = FALSE is a re-prompt (the while loop goes round again).           *)
(***************************************************************************)
EofLine == <<"<EOF>">>

select_article_node(st, line) ==
    LET s1 == [st EXCEPT !.current_node = "select_article"]
        choice == IntOf(line)
    IN  IF ~HasField(s1, "selected_articles") THEN
            \* line 179 reads an attribute State does not declare
            [state |-> st, exc |-> "AttributeError", done |-> TRUE, read |-> 0]
        ELSE IF s1.selected_articles = <<>> THEN
            [state |-> [s1 EXCEPT !.error = "No articles available for selection"],
             exc |-> "none", done |-> TRUE, read |-> 0]
        ELSE IF line = EofLine THEN
            [state |-> st, exc |-> "EOFError", done |-> TRUE, read |-> 1]
        ELSE IF ~IsIntText(line) THEN
            [state |-> st, exc |-> "none", done |-> FALSE, read |-> 1]
        ELSE IF 1 <= choice /\ choice <= Len(s1.selected_articles) THEN
            [state |-> [s1 EXCEPT !.linkedin_article = <<s1.selected_articles[choice]>>],
             exc |-> "none", done |-> TRUE, read |-> 1]
        ELSE
            [state |-> st, exc |-> "none", done |-> FALSE, read |-> 1]

(***************************************************************************)
(* Draft Generator: generate_linkedin_post_node.                            *)
(***************************************************************************)
GenerationErrorMsg == "Error generating LinkedIn post"

generate_linkedin_post_node(st, llm) ==
    LET has_feedback == st.quality_evaluation # <<>>
        rewrite == has_feedback /\ st.needs_rewrite
        call == <<LogEntry("generate_linkedin_post",
                           <<>>,
                           st.linkedin_article,
                           IF rewrite THEN st.linkedin_post ELSE None,
                           IF rewrite THEN st.quality_evaluation ELSE <<>>,
                           llm.kind)>>
    IN  IF ~HasField(st, "quality_evaluation") THEN
            \* line 250 reads an attribute State does not declare
            [state |-> st, exc |-> "AttributeError", calls |-> <<>>]
        ELSE IF has_feedback /\ ~HasField(st, "needs_rewrite") THEN
            [state |-> st, exc |-> "AttributeError", calls |-> <<>>]
        ELSE IF st.linkedin_article = <<>> THEN
            \* None.content raises inside the try block
            [state |-> [st EXCEPT !.error = GenerationErrorMsg], exc |-> "none", calls |-> <<>>]
        ELSE IF llm.kind # "ok" THEN
            [state |-> [st EXCEPT !.error = GenerationErrorMsg], exc |-> "none", calls |-> call]
        ELSE
            [state |-> [st EXCEPT !.linkedin_post = llm.content], exc |-> "none", calls |-> call]

(***************************************************************************)
(* Review Gate: get_user_feedback_node.  One choice line, and after the     *)
(* choice "2" one feedback line, per evaluation.                            *)
(***************************************************************************)
get_user_feedback_node(st, choice_line, feedback_line) ==
    LET s1 == [st EXCEPT !.current_node = "get_user_feedback"]
        choice == Strip(choice_line)
        feedback == Strip(feedback_line)
    IN  IF ~Truthy(s1.linkedin_post) THEN
            [state |-> [s1 EXCEPT !.error = "No LinkedIn post available for feedback"],
             exc |-> "none", done |-> TRUE, read |-> 0, decided |-> "none"]
        ELSE IF choice_line = EofLine THEN
            [state |-> st, exc |-> "EOFError", done |-> TRUE, read |-> 1, decided |-> "none"]
        ELSE IF choice = <<"1">> THEN
            IF HasField(s1, "needs_rewrite") THEN
                [state |-> [s1 EXCEPT !.needs_rewrite = FALSE],
                 exc |-> "none", done |-> TRUE, read |-> 1, decided |-> "accept"]
            ELSE
                \* line 317 assigns an attribute State does not declare
                [state |-> st, exc |-> "ValueError", done |-> TRUE, read |-> 1,
                 decided |-> "accept"]
        ELSE IF choice = <<"2">> THEN
            IF feedback_line = EofLine THEN
                [state |-> st, exc |-> "EOFError", done |-> TRUE, read |-> 2, decided |-> "none"]
            ELSE IF feedback = <<>> THEN
                [state |-> st, exc |-> "none", done |-> FALSE, read |-> 2, decided |-> "none"]
            ELSE IF HasField(s1, "quality_evaluation") /\ HasField(s1, "needs_rewrite") THEN
                [state |-> [s1 EXCEPT !.quality_evaluation = <<feedback>>,
                                      !.needs_rewrite = TRUE],
                 exc |-> "none", done |-> TRUE, read |-> 2, decided |-> "revise"]
            ELSE
                \* line 323 or 324 assigns an attribute State does not declare
                [state |-> st, exc |-> "ValueError", done |-> TRUE, read |-> 2,
                 decided |-> "revise"]
        ELSE
            [state |-> st, exc |-> "none", done |-> FALSE, read |-> 1, decided |-> "none"]

(***************************************************************************)
(* The conditional edge after the Review Gate: determine_next_step.         *)
(***************************************************************************)
determine_next_step(st) ==
    IF ~HasField(st, "needs_rewrite") THEN
        \* line 65 reads an attribute State does not declare
        [next |-> "crashed", exc |-> "AttributeError"]
    ELSE IF st.needs_rewrite THEN [next |-> "generate_linkedin_post", exc |-> "none"]
    ELSE [next |-> "save_linkedin_post", exc |-> "none"]

(***************************************************************************)
(* Persistence: save_linkedin_post_node.  io is what the file system does:  *)
(* "ok", "open_fails" (open raises) or "write_fails" (write raises after    *)
(* open has truncated the file).                                            *)
(***************************************************************************)
SaveErrorMsg == "Failed to save LinkedIn post to file"

\* save that opens the file without truncating: content already there stays
save_keeps_existing_content(st, io, content) ==
    LET s1 == [st EXCEPT !.current_node = "save_linkedin_post"]
    IN  IF io # "ok" \/ s1.linkedin_post = None THEN
            [state |-> [s1 EXCEPT !.error = SaveErrorMsg], exc |-> "none", file |-> content]
        ELSE
            [state |-> s1, exc |-> "none",
             file |-> IF content = "" THEN s1.linkedin_post ELSE content]

\* save that resets the error slot once the file is written
save_clears_error(st, io, content) ==
    LET s1 == [st EXCEPT !.current_node = "save_linkedin_post"]
    IN  IF io = "open_fails" THEN
            [state |-> [s1 EXCEPT !.error = SaveErrorMsg], exc |-> "none", file |-> content]
        ELSE IF s1.linkedin_post = None \/ io = "write_fails" THEN
            [state |-> [s1 EXCEPT !.error = SaveErrorMsg], exc |-> "none", file |-> ""]
        ELSE
            [state |-> [s1 EXCEPT !.error = None], exc |-> "none", file |-> s1.linkedin_post]

\* save that returns a fresh State, as fetch_ai_news_rss_node does
save_returns_fresh_state(st, io, content) ==
    IF io # "ok" \/ st.linkedin_post = None THEN
        [state |-> [StateDefaults EXCEPT !.error = SaveErrorMsg], exc |-> "none",
         file |-> IF io = "open_fails" THEN content ELSE ""]
    ELSE
        [state |-> [StateDefaults EXCEPT !.linkedin_post = st.linkedin_post,
                                         !.current_node = "save_linkedin_post"],
         exc |-> "none", file |-> st.linkedin_post]

save_linkedin_post_node(st, io, content) ==
    LET s1 == [st EXCEPT !.current_node = "save_linkedin_post"]
    IN  IF io = "open_fails" THEN
            [state |-> [s1 EXCEPT !.error = SaveErrorMsg], exc |-> "none", file |-> content]
        ELSE IF s1.linkedin_post = None \/ io = "write_fails" THEN
            \* open(..., "w") has emptied the file; f.write(None) raises TypeError
            [state |-> [s1 EXCEPT !.error = SaveErrorMsg], exc |-> "none", file |-> ""]
        ELSE
            [state |-> s1, exc |-> "none", file |-> s1.linkedin_post]

\* main, after graph.invoke has returned
main_report(st) == IF Truthy(st.error) THEN "failed" ELSE "done"

(***************************************************************************)
(* Inputs of a run.                                                         *)
(***************************************************************************)
\* segments of a feed body: three well-formed ones, a heading without a
\* divider, and a divider without a heading
Segments ==
    { <<H3Open, "a", H3Close, "x", Hr>>,
      <<H3Open, "A", " ", H3Close, "y", UrlTok, Hr>>,
      <<H3Open, "b", H3Close, "x", Hr>>,
      <<H3Open, "c", H3Close, "z">>,
      <<"z", Hr>> }

RECURSIVE Concat(_)
Concat(ss) == IF ss = <<>> THEN <<>> ELSE Head(ss) \o Concat(Tail(ss))

Bodies == { Concat(ss) : ss \in UNION { [1..n -> Segments] : n \in 0..MaxSegs } }

Feeds ==
    { [kind |-> "raises", msg |-> m, entries |-> <<>>] : m \in {"", "feed error"} }
    \cup { [kind |-> "ok", msg |-> "", entries |-> <<>>] }
    \cup { [kind |-> "ok", msg |-> "", entries |-> <<b>>] : b \in Bodies }

\* ranking responses: pieces joined by commas
Pieces == { <<"0">>, <<"1">>, <<" ", "1">>, <<"7">>, <<"-", "1">>, <<"a">>, <<>> }

RECURSIVE Join(_)
Join(ps) ==
    IF Len(ps) = 1 THEN ps[1] ELSE ps[1] \o <<",">> \o Join(Tail(ps))

Responses == { Join(ps) : ps \in UNION { [1..n -> Pieces] : n \in 1..MaxPieces } }

RankerOutcomes ==
    { [kind |-> "ok", content |-> r] : r \in Responses }
    \cup { [kind |-> k, content |-> <<>>] : k \in {"raises", "raises_value_error"} }

Drafts == {"T1", "T2", ""}

DraftOutcomes ==
    { [kind |-> "ok", content |-> d] : d \in Drafts }
    \cup { [kind |-> "raises", content |-> ""] }

Lines == { <<"1">>, <<"2">>, <<" ", "2">>, <<"x">>, <<" ">>, EofLine }

IoOutcomes == {"ok", "open_fails", "write_fails"}

Files == {"", "old post"}

\* State values a node can be handed: every declared field within its type
SampleArticles ==
    { NewsArticle(<<"a">>, <<"x">>, ""), NewsArticle(<<"b">>, <<"y">>, UrlTok) }

EntryStates ==
    { [StateDefaults EXCEPT !.news_articles = na, !.linkedin_article = la,
                            !.linkedin_post = lp, !.error = er] :
        na \in { <<>> } \cup { <<a>> : a \in SampleArticles },
        la \in { <<>> } \cup { <<a>> : a \in SampleArticles },
        lp \in {None} \cup Drafts,
        er \in {None, "earlier error"} }

Nodes ==
    { "fetch_ai_news_rss_node", "choose_relevant_article", "select_article",
      "generate_linkedin_post", "get_user_feedback", "save_linkedin_post" }

Terminal == {"done", "failed", "crashed"}

\* main line 124: State(search_results=[], news_articles=[])
InitialState == [StateDefaults EXCEPT !.search_results = <<>>, !.news_articles = <<>>]

(***************************************************************************)
(* The graph of build_workflow: one action per node, one for the            *)
(* conditional edge, one for main's report after END.                       *)
(***************************************************************************)
Count(seq, x) == Cardinality({ i \in 1..Len(seq) : seq[i] = x })

\* a node has returned r: an uncaught exception ends the run, otherwise the
\* returned State is written to the channels and the edge to next is taken
Finish(r, next) ==
    IF r.exc # "none"
    THEN /\ pc' = "crashed"
         /\ exc' = r.exc
         /\ state' = state
    ELSE /\ pc' = next
         /\ exc' = exc
         /\ state' = r.state

Fetch ==
    /\ pc = "fetch_ai_news_rss_node"
    /\ Finish(fetch_ai_news_rss_node(state, feed), "choose_relevant_article")
    /\ trace' = Append(trace, pc)
    /\ UNCHANGED <<at, file, file0, feed, llm_log, decision, lines, llm_ready>>

Choose ==
    /\ pc = "choose_relevant_article"
    /\ \E llm \in RankerOutcomes :
          LET r == choose_relevant_article_node(state, llm)
          IN  /\ Finish(r, "select_article")
              /\ llm_log' = llm_log \o r.calls
              /\ llm_ready' = llm.kind
    /\ trace' = Append(trace, pc)
    /\ UNCHANGED <<at, file, file0, feed, decision, lines>>

Select ==
    /\ pc = "select_article"
    /\ \E line \in Lines :
          LET r == select_article_node(state, line)
          IN  /\ lines + r.read <= MaxLines
              /\ lines' = lines + r.read
              /\ IF r.done
                 THEN Finish(r, "generate_linkedin_post") /\ at' = "entry"
                 ELSE UNCHANGED <<pc, exc, state>> /\ at' = "prompt"
    /\ trace' = IF at = "entry" THEN Append(trace, pc) ELSE trace
    /\ UNCHANGED <<file, file0, feed, llm_log, decision, llm_ready>>

Generate ==
    /\ pc = "generate_linkedin_post"
    /\ Count(trace, pc) < MaxPasses
    /\ \E llm \in DraftOutcomes :
          LET r == generate_linkedin_post_node(state, llm)
          IN  /\ Finish(r, "get_user_feedback")
              /\ llm_log' = llm_log \o r.calls
              /\ llm_ready' = llm.kind
    /\ trace' = Append(trace, pc)
    /\ UNCHANGED <<at, file, file0, feed, decision, lines>>

Review ==
    /\ pc = "get_user_feedback"
    /\ \E choice_line \in Lines, feedback_line \in Lines :
          LET r == get_user_feedback_node(state, choice_line, feedback_line)
          IN  /\ lines + r.read <= MaxLines
              /\ lines' = lines + r.read
              /\ decision' = IF r.decided # "none" THEN r.decided ELSE decision
              /\ IF r.done
                 THEN Finish(r, "determine_next_step") /\ at' = "entry"
                 ELSE UNCHANGED <<pc, exc, state>> /\ at' = "prompt"
    /\ trace' = IF at = "entry" THEN Append(trace, pc) ELSE trace
    /\ UNCHANGED <<file, file0, feed, llm_log, llm_ready>>

Route ==
    /\ pc = "determine_next_step"
    /\ LET r == determine_next_step(state)
       IN  /\ pc' = r.next
           /\ exc' = r.exc
    /\ UNCHANGED <<state, at, file, file0, feed, trace, llm_log, decision, lines, llm_ready>>

Save ==
    /\ pc = "save_linkedin_post"
    /\ \E io \in IoOutcomes :
          LET r == save_linkedin_post_node(state, io, file)
          IN  /\ Finish(r, "END")
              /\ file' = r.file
    /\ trace' = Append(trace, pc)
    /\ UNCHANGED <<at, file0, feed, llm_log, decision, lines, llm_ready>>

Report ==
    /\ pc = "END"
    /\ pc' = main_report(state)
    /\ UNCHANGED <<state, at, exc, file, file0, feed, trace, llm_log, decision, lines, llm_ready>>

(***************************************************************************)
(* Spec: a run of main.  The steps after select_article are not part of it: *)
(* select_article_node raises on every run, because State declares no       *)
(* selected_articles field (line 179 of nodes.py).                          *)
(***************************************************************************)
Init ==
    /\ state = InitialState
    /\ pc = "fetch_ai_news_rss_node"
    /\ at = "entry"
    /\ exc = "none"
    /\ file0 \in Files
    /\ file = file0
    /\ feed \in Feeds
    /\ trace = <<>>
    /\ llm_log = <<>>
    /\ decision = "none"
    /\ lines = 0
    /\ llm_ready = "none"

Next == Fetch \/ Choose \/ Select

Spec == Init /\ [][Next]_vars

(***************************************************************************)
(* SpecNode: the graph entered at any node with any State value of the      *)
(* declared schema, as a caller of the node functions can hand them; entry  *)
(* at the first node is a run of main.                                      *)
(***************************************************************************)
NoFeed == [kind |-> "ok", msg |-> "", entries |-> <<>>]

InitNode ==
    /\ pc \in Nodes
    /\ IF pc = "fetch_ai_news_rss_node"
       THEN state = InitialState /\ feed \in Feeds
       ELSE state \in EntryStates /\ feed = NoFeed
    /\ at = "entry"
    /\ exc = "none"
    /\ file0 \in Files
    /\ file = file0
    /\ trace = <<>>
    /\ llm_log = <<>>
    /\ decision = "none"
    /\ lines = 0
    /\ llm_ready = "none"

NextNode == Fetch \/ Choose \/ Select \/ Generate \/ Review \/ Route \/ Save \/ Report

SpecNode == InitNode /\ [][NextNode]_vars

(***************************************************************************)
(* Properties.                                                              *)
(***************************************************************************)
RewriteFlagIs(st, b) == HasField(st, "needs_rewrite") /\ st.needs_rewrite = b

AfterSelect ==
    {"generate_linkedin_post", "get_user_feedback", "determine_next_step",
     "save_linkedin_post", "END"}

\* C1: once a step has set the error slot, no further step executes: the run
\* goes straight to its failed end and the save step is not attempted.
C1_ErrorStopsTheRun ==
    [][Truthy(state.error) => trace' = trace /\ pc' \in {"failed", "END"}]_vars

\* C2: after the review gate the next step is the draft generator exactly when
\* the rewrite flag is true and the save step exactly when it is false (closure
\* of the operator channel apart), and no step other than the draft generator
\* and the review gate runs twice in a run.
C2_ReviewRouting ==
    /\ [][(/\ pc \in {"get_user_feedback", "determine_next_step"}
           /\ pc' \notin {"get_user_feedback", "determine_next_step"}
           /\ exc' # "EOFError")
          => /\ pc' \in {"generate_linkedin_post", "save_linkedin_post"}
             /\ pc' = "generate_linkedin_post" <=> RewriteFlagIs(state', TRUE)
             /\ pc' = "save_linkedin_post" <=> RewriteFlagIs(state', FALSE)]_vars
    /\ [](\A n \in Nodes \ {"generate_linkedin_post", "get_user_feedback"} :
             Count(trace, n) <= 1)

C5_FailedRunKeepsFile ==
    (pc \in Terminal /\ Truthy(state.error)) => file = file0

\* C6: a pass of the draft generator whose language-model call fails records
\* the failure in the error slot, does not end the run with an exception, and
\* the save step does not follow a recorded generation failure.
C6_GenerationFailureRecorded ==
    /\ [][(pc = "generate_linkedin_post" /\ llm_ready' = "raises")
          => pc' # "crashed" /\ Truthy(state'.error)]_vars
    /\ [][state.error = GenerationErrorMsg => pc' # "save_linkedin_post"]_vars

\* C7: no step ends with an uncaught exception, closure of the operator
\* channel apart.
C7_NoUncaughtException == exc \in {"none", "EOFError"}

\* C8: the rewrite flag is true only if the last decision at the review gate
\* was revise; it is false initially and after every accept.
C8_RewriteFlag ==
    /\ RewriteFlagIs(state, TRUE) => decision = "revise"
    /\ decision \in {"none", "accept"} => RewriteFlagIs(state, FALSE)

\* C9: once linkedin_article is set, the draft generator, the review gate, the
\* conditional edge and the save step leave it as it is.
C9_ChosenArticleKept ==
    [][(state.linkedin_article # <<>> /\ pc \in AfterSelect)
       => state'.linkedin_article = state.linkedin_article]_vars

C9_Witness ==
    /\ state.linkedin_article # <<>>
    /\ pc = "END"
    /\ trace = <<"save_linkedin_post">>
    /\ file # file0

\* C10: once the error slot is set, it is set in every later state of the run.
C10_ErrorStaysSet == [][Truthy(state.error) => Truthy(state'.error)]_vars

C10_Witness ==
    /\ trace = <<"fetch_ai_news_rss_node", "choose_relevant_article">>
    /\ feed.kind = "raises"
    /\ feed.msg = "feed error"
    /\ state.error = "No articles available to choose from"


\* C11: a run of main ends in one of the states done and failed: in any
\* state that is neither, a step of the workflow can still be taken.
C11_RunEndsDoneOrFailed == pc \in {"done", "failed"} \/ ENABLED Next


\* C12: every pass of the draft generator over a chosen article builds one
\* model request holding the article's body; after a revise decision (rewrite
\* flag true) the request also holds the previous draft and the stored
\* feedback, and otherwise neither.
C12_DraftRequest ==
    [][(pc = "generate_linkedin_post" /\ state.linkedin_article # <<>>)
       => /\ Len(llm_log') = Len(llm_log) + 1
          /\ LET q == llm_log'[Len(llm_log')]
                 rewrite == RewriteFlagIs(state, TRUE)
             IN  /\ q.node = "generate_linkedin_post"
                 /\ q.article = state.linkedin_article
                 /\ rewrite => /\ q.post = state.linkedin_post
                               /\ HasField(state, "quality_evaluation")
                               /\ q.feedback = state.quality_evaluation
                 /\ ~rewrite => q.post = None /\ q.feedback = <<>>]_vars

\* C13: an accept at the review gate leaves the rewrite flag false and no
\* stored feedback.
C13_AcceptClears ==
    [][(pc = "get_user_feedback" /\ decision' = "accept" /\ lines' > lines)
       => /\ RewriteFlagIs(state', FALSE)
          /\ HasField(state', "quality_evaluation")
          /\ state'.quality_evaluation = <<>>]_vars


(***************************************************************************)
(* SpecChoose: choose_relevant_article_node handed a list of article        *)
(* records, among them records whose bodies are longer than the 200         *)
(* characters the deduplicator compares.                                    *)
(***************************************************************************)
LongText == [i \in 1..ContentPrefixLen |-> "a"]

\* records that agree or differ in title key, in body key, and in the text after
\* the first 200 characters of the body
DedupArticles ==
    { NewsArticle(<<"a">>, <<"b">>, ""),
      NewsArticle(<<"A", " ">>, <<" ", "B">>, ""),
      NewsArticle(<<"A", " ">>, LongText \o <<"b">>, ""),
      NewsArticle(<<"b">>, <<"b">>, ""),
      NewsArticle(<<"b">>, LongText \o <<"b">>, ""),
      NewsArticle(<<"b">>, LongText \o <<"c">>, "") }

ArticleLists == UNION { [1..n -> DedupArticles] : n \in 0..MaxArticles }

InitChoose ==
    /\ state \in { [StateDefaults EXCEPT !.news_articles = l] : l \in ArticleLists }
    /\ pc = "choose_relevant_article"
    /\ at = "entry"
    /\ exc = "none"
    /\ file0 = ""
    /\ file = file0
    /\ feed = NoFeed
    /\ trace = <<>>
    /\ llm_log = <<>>
    /\ decision = "none"
    /\ lines = 0
    /\ llm_ready = "none"

NextChoose == Choose

SpecChoose == InitChoose /\ [][NextChoose]_vars

\* the records of a at the indices of K, in the order of a
RECURSIVE KeepFrom(_, _, _)
KeepFrom(a, K, n) ==
    IF n > Len(a) THEN <<>>
    ELSE IF n \in K THEN <<a[n]>> \o KeepFrom(a, K, n + 1)
    ELSE KeepFrom(a, K, n + 1)

\* the deduplicated list the ranker put in its request
Deduplicated == llm_log[1].articles

\* C14: the deduplicated list is the input restricted to a set K of positions
\* (so in input order) that holds the first position, has no two records with
\* the same normalized title or the same normalized 200-character body prefix,
\* and leaves out only records one of whose two keys is that of an earlier
\* record.
C14_Deduplicated ==
    llm_log # <<>> =>
        LET a == state.news_articles
        IN  \E K \in SUBSET (1..Len(a)) :
                /\ Deduplicated = KeepFrom(a, K, 1)
                /\ 1 \in K
                /\ \A i \in K : \A j \in K :
                       i < j => /\ norm_title(a[i]) # norm_title(a[j])
                                /\ norm_content(a[i]) # norm_content(a[j])
                /\ \A i \in (1..Len(a)) \ K : \E j \in 1..(i - 1) :
                       \/ norm_title(a[j]) = norm_title(a[i])
                       \/ norm_content(a[j]) = norm_content(a[i])

C14_Witness ==
    /\ llm_log # <<>>
    /\ Len(state.news_articles) = 2
    /\ Len(Deduplicated) = 1
    /\ state.news_articles[1].title # state.news_articles[2].title
    /\ state.news_articles[1].content # state.news_articles[2].content

TitleKey(r) == Strip(Lower(r.title))
BodyKey(r) == Strip(Lower(SubSeq(r.content, 1, Min(200, Len(r.content)))))

\* C15 as stated: of two records with the same normalized title and different
\* bodies only the first survives, and two records with distinct normalized
\* titles both survive whatever their bodies.
C15_DistinctTitlesSurvive ==
    (llm_log # <<>> /\ Len(state.news_articles) = 2) =>
        LET r1 == state.news_articles[1]
            r2 == state.news_articles[2]
        IN  /\ (TitleKey(r1) = TitleKey(r2) /\ r1.content # r2.content)
                  => Deduplicated = <<r1>>
            /\ TitleKey(r1) # TitleKey(r2) => Deduplicated = <<r1, r2>>

\* C15 amended: of two records with the same normalized title only the first
\* survives; two records with distinct normalized titles both survive if their
\* normalized 200-character body prefixes differ, and only the first survives
\* if those prefixes are equal.
C15_TwoRecords ==
    (llm_log # <<>> /\ Len(state.news_articles) = 2) =>
        LET r1 == state.news_articles[1]
            r2 == state.news_articles[2]
        IN  /\ TitleKey(r1) = TitleKey(r2) => Deduplicated = <<r1>>
            /\ (TitleKey(r1) # TitleKey(r2) /\ BodyKey(r1) # BodyKey(r2))
                  => Deduplicated = <<r1, r2>>
            /\ (TitleKey(r1) # TitleKey(r2) /\ BodyKey(r1) = BodyKey(r2))
                  => Deduplicated = <<r1>>

C15_Witness ==
    /\ llm_log # <<>>
    /\ Len(state.news_articles) = 2
    /\ TitleKey(state.news_articles[1]) # TitleKey(state.news_articles[2])
    /\ state.news_articles[1].content # state.news_articles[2].content
    /\ Len(state.news_articles[1].content) > 200
    /\ Deduplicated = <<state.news_articles[1]>>


\* the pieces of a ranking response and the integers they parse to
ResponsePieces(llm) == Split(llm.content, <<>>)
ResponseIsIntegers(llm) ==
    llm.kind = "ok" /\ \A n \in 1..Len(ResponsePieces(llm)) : IsIntText(ResponsePieces(llm)[n])
ResponseIndices(llm) ==
    [n \in 1..Len(ResponsePieces(llm)) |-> IntOf(ResponsePieces(llm)[n])]

\* C16: whenever the ranker is about to run on a non-empty deduplicated list,
\* for every model response that is a comma-separated list of integers with at
\* least one index in [0, count), the ranker stores as candidates the records at
\* the in-range indices, in the order returned, cut to the first 5, and sets no
\* error.
C16_CandidatesStored ==
    pc = "choose_relevant_article" =>
        \A llm \in RankerOutcomes :
            LET unique == unique_articles(state.news_articles)
                valid == Prefix(InRange(ResponseIndices(llm), Len(unique)), 5)
                r == choose_relevant_article_node(state, llm)
            IN  (unique # <<>> /\ ResponseIsIntegers(llm) /\ valid # <<>>)
                    => /\ r.exc = "none"
                       /\ HasField(r.state, "selected_articles")
                       /\ r.state.selected_articles =
                              [n \in 1..Len(valid) |-> unique[valid[n] + 1]]
                       /\ r.state.error = None

\* C17: whenever the ranker is about to run on a non-empty deduplicated list, a
\* response with no parseable integer gives the parse error and stores no
\* candidates, a response of integers none of which is in range gives the
\* no-candidates error, and a response with at least one parseable in-range
\* integer does not give the parse error.
C17_RankerErrors ==
    pc = "choose_relevant_article" =>
        \A llm \in RankerOutcomes :
            LET unique == unique_articles(state.news_articles)
                pieces == ResponsePieces(llm)
                r == choose_relevant_article_node(state, llm)
                stored == HasField(r.state, "selected_articles")
                              /\ r.state.selected_articles # <<>>
            IN  (unique # <<>> /\ llm.kind = "ok")
                    => /\ (\A n \in 1..Len(pieces) : ~IsIntText(pieces[n]))
                              => r.exc = "none" /\ r.state.error = ParseErrorMsg /\ ~stored
                       /\ (ResponseIsIntegers(llm)
                             /\ InRange(ResponseIndices(llm), Len(unique)) = <<>>)
                              => /\ r.exc = "none"
                                 /\ r.state.error = "No valid article indices were selected"
                       /\ (\E n \in 1..Len(pieces) :
                               /\ IsIntText(pieces[n])
                               /\ 0 <= IntOf(pieces[n])
                               /\ IntOf(pieces[n]) < Len(unique))
                              => r.state.error # ParseErrorMsg

\* C18: the selector step ends (other than by end of input) only after the
\* operator entered an integer c with 1 <= c <= count, and then the chosen
\* article is candidate c-1 of the ranked list; a step that re-prompts leaves the
\* workflow state unchanged.
C18_SelectorReturnsValidChoice ==
    [][pc = "select_article"
       => /\ (pc' = "select_article" /\ lines' > lines) => state' = state
          /\ (pc' # "select_article" /\ exc' # "EOFError")
                => /\ pc' = "generate_linkedin_post"
                   /\ lines' > lines
                   /\ HasField(state, "selected_articles")
                   /\ \E c \in 1..Len(state.selected_articles) :
                          state'.linkedin_article = <<state.selected_articles[c]>>]_vars


\* no heading is followed by a divider anywhere in the body
NoHeadingDividerPair(body) ==
    ~ \E i \in 1..Len(body) : \E j \in 1..Len(body) : \E k \in 1..Len(body) :
          /\ i < j /\ j < k
          /\ body[i] = H3Open /\ body[j] = H3Close /\ body[k] = Hr

\* C19: the extractor step on a feed without entries sets the error slot and
\* yields no article records; when parsing raises, the error slot is the
\* exception's message; on a first entry whose body holds no heading/divider
\* pair it yields an empty article list, sets no error and hands on to the next
\* step.
C19_ExtractorFailures ==
    [][pc = "fetch_ai_news_rss_node"
       => /\ (feed.kind = "ok" /\ feed.entries = <<>>)
                => Truthy(state'.error) /\ state'.news_articles = <<>>
          /\ feed.kind = "raises" => state'.error = feed.msg
          /\ (feed.kind = "ok" /\ feed.entries # <<>>
                /\ NoHeadingDividerPair(feed.entries[1]))
                => /\ state'.news_articles = <<>>
                   /\ state'.error = None
                   /\ pc' = "choose_relevant_article"]_vars

C19_Witness ==
    /\ trace = <<"fetch_ai_news_rss_node">>
    /\ feed.kind = "ok"
    /\ feed.entries # <<>>
    /\ feed.entries[1] # <<>>
    /\ NoHeadingDividerPair(feed.entries[1])
    /\ state.news_articles = <<>>
    /\ state.error = None

SegmentLists == UNION { [1..n -> Segments] : n \in 0..MaxSegs }

\* a segment that opens with a heading and closes with a divider
WellFormed(seg) == Head(seg) = H3Open /\ seg[Len(seg)] = Hr

\* one record per well-formed segment, each extracted from its segment alone
RECURSIVE RecordsOfWellFormed(_)
RecordsOfWellFormed(ss) ==
    IF ss = <<>> THEN <<>>
    ELSE (IF WellFormed(Head(ss)) THEN ExtractArticles(Head(ss)) ELSE <<>>)
         \o RecordsOfWellFormed(Tail(ss))

\* C20: for a feed body made of well-formed and malformed segments in any
\* order, the extractor step returns exactly the records of the well-formed
\* segments, one each, none holding text of another segment.
C20_OneRecordPerWellFormedSegment ==
    [][(pc = "fetch_ai_news_rss_node" /\ feed.kind = "ok" /\ feed.entries # <<>>)
       => \A ss \in SegmentLists :
              Concat(ss) = feed.entries[1]
                  => state'.news_articles = RecordsOfWellFormed(ss)]_vars


\* C21: a pass of the review gate that re-prompts (an invalid choice, or a
\* revise choice with empty or whitespace-only feedback) leaves the workflow
\* state unchanged, and a pass on which the operator decides to revise ends
\* with the gate returning, the rewrite flag set and the stored feedback equal
\* to a non-empty trimmed line.
C21_ReviseStoresFeedback ==
    [][pc = "get_user_feedback"
       => /\ (pc' = pc /\ lines' > lines) => state' = state
          /\ (decision' = "revise" /\ pc' # pc)
                => /\ pc' = "determine_next_step"
                   /\ RewriteFlagIs(state', TRUE)
                   /\ HasField(state', "quality_evaluation")
                   /\ \E l \in Lines :
                          /\ Strip(l) # <<>>
                          /\ state'.quality_evaluation = <<Strip(l)>>]_vars


\* C22: a pass of the ranker over a non-empty deduplicated list makes exactly
\* one model invocation; a pass over an empty list (no articles extracted)
\* makes none, sets the error slot and returns.
C22_OneInvocation ==
    [][pc = "choose_relevant_article"
       => IF unique_articles(state.news_articles) # <<>>
          THEN /\ Len(llm_log') = Len(llm_log) + 1
               /\ llm_log'[Len(llm_log')].node = "choose_relevant_article"
          ELSE /\ llm_log' = llm_log
               /\ Truthy(state'.error)
               /\ pc' = "select_article"]_vars

C22_Witness ==
    /\ trace = <<"fetch_ai_news_rss_node", "choose_relevant_article">>
    /\ state.news_articles # <<>>
    /\ Len(llm_log) = 1
    /\ llm_log[1].node = "choose_relevant_article"

\* C23: the revise loop is not capped.  Whatever the number of passes so far,
\* at the review gate with a draft the operator can decide to revise and can
\* decide to accept, and the gate returns either way; after a revise decision
\* the routing leads to a further pass of the draft generator, after an accept
\* to the save step; and a pass of the draft generator over a chosen article
\* leads back to the review gate.
C23_ReviseLoopUncapped ==
    /\ (pc = "get_user_feedback" /\ at = "entry" /\ Truthy(state.linkedin_post)
          /\ lines + 2 <= MaxLines)
          => /\ ENABLED (Review /\ decision' = "revise" /\ pc' = "determine_next_step")
             /\ ENABLED (Review /\ decision' = "accept" /\ pc' = "determine_next_step")
    /\ (pc = "determine_next_step" /\ decision = "revise")
          => ENABLED (Route /\ pc' = "generate_linkedin_post")
    /\ (pc = "determine_next_step" /\ decision = "accept")
          => ENABLED (Route /\ pc' = "save_linkedin_post")
    /\ (pc = "generate_linkedin_post" /\ state.linkedin_article # <<>>
          /\ Count(trace, pc) < MaxPasses)
          => ENABLED (Generate /\ pc' = "get_user_feedback")


\* C24: when a step of the workflow completes, the step label in the state
\* names that step, for each of the six steps.
C24_LabelNamesLastStep ==
    [][(pc \in Nodes /\ pc' \notin {pc, "crashed"}) => state'.current_node = pc]_vars

====
